---- MODULE Spec2Model ----
(***************************************************************************)
(* The placeholder icon generator src-tauri/icons/create_icons.py as a     *)
(* state machine: the working directory, the script's variables and its    *)
(* position in the script.  One action per statement of the script.        *)
(***************************************************************************)
EXTENDS Integers, Sequences, FiniteSets, TLC

VARIABLES
    icon_sizes,   \* the size sequence of line 6
    dir,          \* the working directory: file name -> file
    dir0,         \* the working directory as it was when the current run began
    pc,           \* the statement the script is at
    i,            \* how many entries of icon_sizes the for loop has taken
    img,          \* the canvas bound to `img`
    img_128,      \* the image bound to `img_128`
    stdout,       \* the lines printed by the current run
    err,          \* the exception that ended the current run, or "none"
    failedAt,     \* the statement that raised it, or "none"
    log,          \* the script's effects in the current run, in order
    run           \* the number of the current run

vars == <<icon_sizes, dir, dir0, pc, i, img, img_128, stdout, err, failedAt,
          log, run>>

-----------------------------------------------------------------------------
(* Bounds of the model *)

\* the longest size sequence tried
MaxLen == 3

\* how many times in succession the script is run
MaxRuns == 2

\* the (width, height) entries the size sequences are built from: the two of
\* the script and one that is too narrow for the margin
SizeUniverse == {<<32, 32>>, <<128, 128>>, <<6, 12>>}

-----------------------------------------------------------------------------
(* The script's literals *)

margin == 4

FillColour == <<70, 130, 180, 255>>

OutlineColour == <<25, 25, 112, 255>>

Background == <<0, 0, 0, 0>>

ReferenceSizes == << <<32, 32>>, <<128, 128>> >>

Message == "Created placeholder icons"

\* f'{width}x{height}.png'
FileName(width, height) == ToString(width) \o "x" \o ToString(height) \o ".png"

\* variant: the source of the copy named after the last entry of icon_sizes
OpenSourceOfLastSize ==
    IF Len(icon_sizes) = 0 THEN "128x128.png"
    ELSE FileName(icon_sizes[Len(icon_sizes)][1], icon_sizes[Len(icon_sizes)][2])

\* the file the duplication step opens: a literal, not a name computed from icon_sizes
OpenSource == "128x128.png"

\* variant: the copy saved over its own source
SaveTargetIsSource == "128x128.png"

\* the file the duplication step writes
SaveTarget == "128x128@2x.png"

-----------------------------------------------------------------------------
(* Images and files *)

NoImage == [kind |-> "none"]

NoFile == [kind |-> "absent"]

\* a file that is no image (or an image file cut short by a failed write)
Garbage == [kind |-> "data"]

\* Image.new('RGBA', (width, height), colour)
NewImage(width, height, colour) ==
    [kind |-> "image", mode |-> "RGBA", size |-> <<width, height>>,
     px |-> [x \in 0..(width - 1) |-> [y \in 0..(height - 1) |-> colour]]]

\* variant: the ellipse inscribed in the whole canvas
BoundingBoxNoMargin(width, height) == <<0, 0, width, height>>

\* [margin, margin, width-margin, height-margin]
BoundingBox(width, height) == <<margin, margin, width - margin, height - margin>>

\* whether the rasteriser rejects the box (x1 < x0 or y1 < y0)
Inverted(box) == box[3] < box[1] \/ box[4] < box[2]

\* whether pixel (x, y) lies in the ellipse inscribed in the inclusive box
InEllipse(box, x, y) ==
    LET a == box[3] - box[1]
        b == box[4] - box[2]
        X == 2 * x - (box[1] + box[3])
        Y == 2 * y - (box[2] + box[4])
    IN  /\ box[1] <= x /\ x <= box[3]
        /\ box[2] <= y /\ y <= box[4]
        /\ X * X * b * b + Y * Y * a * a <= a * a * b * b

\* 0: outside the ellipse, 1: on its one-pixel boundary stroke, 2: interior
EllipseClass(box, x, y) ==
    IF ~InEllipse(box, x, y) THEN 0
    ELSE IF /\ InEllipse(box, x - 1, y) /\ InEllipse(box, x + 1, y)
            /\ InEllipse(box, x, y - 1) /\ InEllipse(box, x, y + 1)
         THEN 2 ELSE 1

\* the rasterised ellipse of every canvas size, computed once
Raster ==
    [s \in SizeUniverse |->
        [x \in 0..(s[1] - 1) |-> [y \in 0..(s[2] - 1) |->
            EllipseClass(BoundingBox(s[1], s[2]), x, y)]]]

\* the canvas with the ellipse's interior in one colour and its boundary stroke
\* in another; every other pixel is kept
Paint(image, interior, stroke) ==
    LET r == Raster[image.size] IN
    [image EXCEPT !.px =
        [x \in 0..(image.size[1] - 1) |-> [y \in 0..(image.size[2] - 1) |->
            IF r[x][y] = 2 THEN interior
            ELSE IF r[x][y] = 1 THEN stroke
            ELSE image.px[x][y]]]]

\* variant: fill and outline exchanged
DrawEllipseExchanged(image, fill, outline) == Paint(image, outline, fill)

\* draw.ellipse(box, fill=..., outline=...) on a canvas
DrawEllipse(image, fill, outline) == Paint(image, fill, outline)

\* the PNG encoder of img.save: lossless, stamps its own encoder metadata
EncodePNG(image) ==
    [kind |-> "png", enc |-> "PIL", mode |-> image.mode, size |-> image.size,
     px |-> image.px]

\* whether Image.open recognises the file
Decodable(file) == file.kind = "png"

\* the PNG decoder of Image.open: the pixels, without the encoder metadata
DecodePNG(file) ==
    [kind |-> "image", mode |-> file.mode, size |-> file.size, px |-> file.px]

\* variant: a missing file opens as a blank image
OpenImageOrBlank(file) ==
    IF file.kind = "absent"
    THEN [ok |-> TRUE, err |-> "none", image |-> NewImage(2, 2, Background)]
    ELSE IF ~Decodable(file) THEN [ok |-> FALSE, err |-> "UnidentifiedImageError", image |-> NoImage]
    ELSE [ok |-> TRUE, err |-> "none", image |-> DecodePNG(file)]

\* Image.open(name): the decoded image, or the exception it raises
OpenImage(file) ==
    IF file.kind = "absent" THEN [ok |-> FALSE, err |-> "FileNotFoundError", image |-> NoImage]
    ELSE IF ~Decodable(file) THEN [ok |-> FALSE, err |-> "UnidentifiedImageError", image |-> NoImage]
    ELSE [ok |-> TRUE, err |-> "none", image |-> DecodePNG(file)]

\* variant: a file already there is kept as it is
WriteFileKeepsOld(d, name, image) ==
    IF d[name].kind = "absent" THEN [d EXCEPT ![name] = EncodePNG(image)] ELSE d

\* the directory after a save of `image` under `name` that succeeded: the file
\* is created, or the one already there replaced
WriteFile(d, name, image) == [d EXCEPT ![name] = EncodePNG(image)]

\* the directories a save that failed can leave: the target untouched (it could
\* not be opened, or was created by the save and removed again), or cut short
FailedWrites(d, name) == {d, [d EXCEPT ![name] = Garbage]}

\* variant: the target opened for exclusive creation
SaveOutcomesExclusive(d, name, image) ==
    IF d[name].kind # "absent"
    THEN {[ok |-> FALSE, err |-> "FileExistsError", dir |-> d]}
    ELSE {[ok |-> TRUE, err |-> "none", dir |-> WriteFile(d, name, image)]}
            \cup {[ok |-> FALSE, err |-> "OSError", dir |-> f] : f \in FailedWrites(d, name)}

\* what image.save(name) can do: write the file, whether or not one of that name
\* exists, or fail with an error of the file system
SaveOutcomes(d, name, image) ==
    {[ok |-> TRUE, err |-> "none", dir |-> WriteFile(d, name, image)]}
        \cup {[ok |-> FALSE, err |-> "OSError", dir |-> f] : f \in FailedWrites(d, name)}

\* variant: one canvas allocated for the first size and used for all
CanvasReused(previous, width, height) ==
    IF previous.kind = "image" THEN previous ELSE NewImage(width, height, Background)

\* the canvas of one loop iteration: a new one each time, whatever `img` held
Canvas(previous, width, height) == NewImage(width, height, Background)

\* variant: the exception is caught and the statement tried again
OnErrorRetry(statement) == statement

\* no statement catches an exception: the script ends at the statement that raised
OnError(statement) == "failed"

\* variant: the duplication step inside the loop body
AfterSaveDuplicate == "open"

\* the statement after img.save of line 19: the head of the for loop
AfterSave == "loop"

-----------------------------------------------------------------------------
(* The initial states *)

SizeSequences == UNION {[1..n -> SizeUniverse] : n \in 0..MaxLen}

Names ==
    {FileName(s[1], s[2]) : s \in SizeUniverse}
        \cup {"128x128.png", "128x128@2x.png", "icon.ico"}

\* a PNG left by some other program: 2 x 2 opaque red
ForeignPng ==
    [kind |-> "png", enc |-> "other", mode |-> "RGBA", size |-> <<2, 2>>,
     px |-> [x \in 0..1 |-> [y \in 0..1 |-> <<255, 0, 0, 255>>]]]

InitialDirs ==
    {d \in [Names -> {NoFile, ForeignPng, Garbage}] :
        /\ d["icon.ico"] = Garbage
        /\ d["128x128@2x.png"] # Garbage
        /\ d["32x32.png"] = d["128x128@2x.png"]
        /\ \A n \in Names \ {"icon.ico", "128x128.png", "128x128@2x.png", "32x32.png"} :
              d[n] = NoFile}

Init ==
    /\ icon_sizes \in SizeSequences
    /\ dir \in InitialDirs
    /\ dir0 = dir
    /\ pc = "loop"
    /\ i = 0
    /\ img = NoImage
    /\ img_128 = NoImage
    /\ stdout = << >>
    /\ err = "none"
    /\ failedAt = "none"
    /\ log = << >>
    /\ run = 1

-----------------------------------------------------------------------------
(* The statements of the script *)

Event(op, name) == [op |-> op, name |-> name]

Raise(exception) ==
    /\ pc' = OnError(pc)
    /\ err' = exception
    /\ failedAt' = pc
    /\ log' = Append(log, Event("raise", exception))

CurrentName == FileName(icon_sizes[i][1], icon_sizes[i][2])

\* lines 8-11: the for loop takes the next entry and allocates its canvas
ForNext ==
    /\ pc = "loop"
    /\ i < Len(icon_sizes)
    /\ i' = i + 1
    /\ img' = Canvas(img, icon_sizes[i + 1][1], icon_sizes[i + 1][2])
    /\ log' = Append(log, Event("new", FileName(icon_sizes[i + 1][1], icon_sizes[i + 1][2])))
    /\ pc' = "draw"
    /\ UNCHANGED <<icon_sizes, dir, dir0, img_128, stdout, err, failedAt, run>>

\* lines 14-16: draw.ellipse on the canvas
Draw ==
    /\ pc = "draw"
    /\ img' = DrawEllipse(img, FillColour, OutlineColour)
    /\ log' = Append(log, Event("draw", CurrentName))
    /\ pc' = "save"
    /\ UNCHANGED <<icon_sizes, dir, dir0, i, img_128, stdout, err, failedAt, run>>

\* lines 14-16 on a canvas narrower or lower than twice the margin: an imaging
\* library that validates the box raises ValueError (one that does not draws
\* nothing, which is what Draw does with an inverted box)
DrawRejected ==
    /\ pc = "draw"
    /\ Inverted(BoundingBox(img.size[1], img.size[2]))
    /\ Raise("ValueError")
    /\ UNCHANGED <<icon_sizes, dir, dir0, i, img, img_128, stdout, run>>

\* line 19: img.save(f'{width}x{height}.png')
SaveIcon ==
    /\ pc = "save"
    /\ \E o \in SaveOutcomes(dir, CurrentName, img) : o.ok /\ dir' = o.dir
    /\ log' = Append(log, Event("write", CurrentName))
    /\ pc' = AfterSave
    /\ UNCHANGED <<icon_sizes, dir0, i, img, img_128, stdout, err, failedAt, run>>

\* line 19 when the save raises
SaveIconFails ==
    /\ pc = "save"
    /\ \E o \in SaveOutcomes(dir, CurrentName, img) :
          ~o.ok /\ dir' = o.dir /\ Raise(o.err)
    /\ UNCHANGED <<icon_sizes, dir0, i, img, img_128, stdout, run>>

\* the for loop is exhausted: control reaches line 22
ForExit ==
    /\ pc = "loop"
    /\ i >= Len(icon_sizes)
    /\ pc' = "open"
    /\ UNCHANGED <<icon_sizes, dir, dir0, i, img, img_128, stdout, err, failedAt, log, run>>

\* line 22: img_128 = Image.open('128x128.png')
Open128 ==
    /\ pc = "open"
    /\ OpenImage(dir[OpenSource]).ok
    /\ img_128' = OpenImage(dir[OpenSource]).image
    /\ log' = Append(log, Event("read", OpenSource))
    /\ pc' = "save2x"
    /\ UNCHANGED <<icon_sizes, dir, dir0, i, img, stdout, err, failedAt, run>>

\* line 22 when the file is missing or is no image
Open128Fails ==
    /\ pc = "open"
    /\ ~OpenImage(dir[OpenSource]).ok
    /\ Raise(OpenImage(dir[OpenSource]).err)
    /\ UNCHANGED <<icon_sizes, dir, dir0, i, img, img_128, stdout, run>>

\* line 23: img_128.save('128x128@2x.png')
Save2x ==
    /\ pc = "save2x"
    /\ \E o \in SaveOutcomes(dir, SaveTarget, img_128) : o.ok /\ dir' = o.dir
    /\ log' = Append(log, Event("write", SaveTarget))
    /\ pc' = "print"
    /\ UNCHANGED <<icon_sizes, dir0, i, img, img_128, stdout, err, failedAt, run>>

\* line 23 when the save raises
Save2xFails ==
    /\ pc = "save2x"
    /\ \E o \in SaveOutcomes(dir, SaveTarget, img_128) :
          ~o.ok /\ dir' = o.dir /\ Raise(o.err)
    /\ UNCHANGED <<icon_sizes, dir0, i, img, img_128, stdout, run>>

\* line 25: print("Created placeholder icons"), and the script ends
PrintDone ==
    /\ pc = "print"
    /\ stdout' = Append(stdout, Message)
    /\ log' = Append(log, Event("print", Message))
    /\ pc' = "done"
    /\ UNCHANGED <<icon_sizes, dir, dir0, i, img, img_128, err, failedAt, run>>

\* the script is run again, in the directory its completed run left
RunAgain ==
    /\ pc = "done"
    /\ run < MaxRuns
    /\ run' = run + 1
    /\ dir0' = dir
    /\ pc' = "loop"
    /\ i' = 0
    /\ img' = NoImage
    /\ img_128' = NoImage
    /\ stdout' = << >>
    /\ err' = "none"
    /\ failedAt' = "none"
    /\ log' = << >>
    /\ UNCHANGED <<icon_sizes, dir>>

Next ==
    \/ ForNext
    \/ Draw
    \/ DrawRejected
    \/ SaveIcon
    \/ SaveIconFails
    \/ ForExit
    \/ Open128
    \/ Open128Fails
    \/ Save2x
    \/ Save2xFails
    \/ PrintDone
    \/ RunAgain

Spec == Init /\ [][Next]_vars

-----------------------------------------------------------------------------
(* What the properties below speak of *)

\* the names the current run has written so far
Written == {log[k].name : k \in {j \in 1..Len(log) : log[j].op = "write"}}

\* the distinct entries of the size sequence
Entries == {icon_sizes[k] : k \in 1..Len(icon_sizes)}

\* the positions of the size sequence that hold (128, 128)
Positions128 == {k \in 1..Len(icon_sizes) : icon_sizes[k] = <<128, 128>>}

\* {width}x{height}.png, spelt out
IconName(s) == ToString(s[1]) \o "x" \o ToString(s[2]) \o ".png"

\* the decoded pixel content of a file: what a decoder yields, not its metadata
PixelsOf(file) ==
    IF file.kind = "png" THEN [kind |-> "pixels", size |-> file.size, px |-> file.px]
    ELSE [kind |-> file.kind]

\* the current run has just written the icon of the entry the loop is at
IconJustWritten ==
    /\ Len(log) > 0
    /\ log[Len(log)].op = "write"
    /\ log[Len(log)].name # "128x128@2x.png"

-----------------------------------------------------------------------------
(* C1 *)

C1_Consequent ==
    /\ pc \notin {"save2x", "print", "done"}
    /\ "128x128@2x.png" \notin Written
    /\ dir["128x128@2x.png"] = dir0["128x128@2x.png"]
    /\ (pc = "failed" /\ failedAt = "open" => err = "FileNotFoundError")

\* C1 as claimed: with no (128, 128) entry in the size sequence, whatever the
\* working directory held at the start, the duplication step ends the run with
\* a file-not-found error and 128x128@2x.png is neither created nor rewritten.
C1_Original == Positions128 = {} => C1_Consequent

\* C1 amended: with no (128, 128) entry in the size sequence and no file
\* 128x128.png in the working directory at the start of the run, the run never
\* gets past the duplication step, which fails with a file-not-found error, and
\* 128x128@2x.png is neither created nor rewritten by the run.
C1_MissingSource ==
    (Positions128 = {} /\ dir0["128x128.png"].kind = "absent") => C1_Consequent

C1_Witness ==
    /\ Positions128 = {}
    /\ Len(icon_sizes) > 0
    /\ dir0["128x128.png"].kind = "absent"
    /\ dir0["128x128@2x.png"].kind = "png"
    /\ pc = "failed"
    /\ failedAt = "open"
    /\ err = "FileNotFoundError"
    /\ dir["128x128@2x.png"] = dir0["128x128@2x.png"]

-----------------------------------------------------------------------------
(* C2 *)

\* C2 as claimed: a completed run over a size sequence of length N with exactly
\* one (128, 128) entry has written exactly N + 1 file names.
C2_Original ==
    (Cardinality(Positions128) = 1 /\ pc = "done")
        => Cardinality(Written) = Len(icon_sizes) + 1

\* C2 amended: a completed run over a size sequence with exactly one (128, 128)
\* entry has written exactly D + 1 file names, D the number of distinct entries
\* of the sequence (N + 1 only when no entry repeats).
C2_FileCount ==
    (Cardinality(Positions128) = 1 /\ pc = "done")
        => /\ Cardinality(Written) = Cardinality(Entries) + 1
           /\ Written = {IconName(s) : s \in Entries} \cup {"128x128@2x.png"}

C2_Witness ==
    /\ Cardinality(Positions128) = 1
    /\ pc = "done"
    /\ Cardinality(Entries) < Len(icon_sizes)
    /\ Cardinality(Written) = Cardinality(Entries) + 1

-----------------------------------------------------------------------------
(* C3 *)

\* C3: the duplication step reads the file literally named 128x128.png and no
\* other; the image it holds is that file's decoded content, and once it has
\* saved, through to the end of the run, 128x128@2x.png and 128x128.png decode
\* to the same pixels.
C3_DuplicationEquivalence ==
    /\ \A k \in 1..Len(log) : log[k].op = "read" => log[k].name = "128x128.png"
    /\ pc = "save2x" =>
          /\ dir["128x128.png"].kind = "png"
          /\ img_128.size = dir["128x128.png"].size
          /\ img_128.px = dir["128x128.png"].px
    /\ pc \in {"print", "done"} =>
          /\ dir["128x128@2x.png"].kind = "png"
          /\ PixelsOf(dir["128x128@2x.png"]) = PixelsOf(dir["128x128.png"])

C3_Witness ==
    /\ pc = "done"
    /\ Len(icon_sizes) > 1
    /\ Positions128 # {}
    /\ icon_sizes[Len(icon_sizes)] # <<128, 128>>
    /\ PixelsOf(dir["128x128@2x.png"]) = PixelsOf(dir["128x128.png"])
    /\ dir["128x128@2x.png"].size = <<128, 128>>

-----------------------------------------------------------------------------
(* C4 *)

\* C4: when a run has completed, every entry (width, height) of the size
\* sequence has its file {width}x{height}.png, a PNG of exactly width x height
\* pixels, whatever file of that name the directory held before the run.
C4_DimensionFidelity ==
    pc = "done" =>
        \A s \in Entries :
            LET f == dir[IconName(s)] IN
            /\ f.kind = "png"
            /\ f.size = s
            /\ DOMAIN f.px = 0..(s[1] - 1)
            /\ \A x \in DOMAIN f.px : DOMAIN f.px[x] = 0..(s[2] - 1)

C4_Witness ==
    /\ pc = "done"
    /\ <<6, 12>> \in Entries
    /\ <<32, 32>> \in Entries
    /\ dir0["32x32.png"].kind = "png"
    /\ dir0["32x32.png"].size = <<2, 2>>
    /\ dir["32x32.png"].size = <<32, 32>>
    /\ dir["6x12.png"].size = <<6, 12>>

-----------------------------------------------------------------------------
(* C5 *)

\* C5: in a run that follows a completed run, no file's decoded pixels differ
\* from what the completed run left, at any point short of a failure; with the
\* script's own size sequence the second run fails only where the file system
\* fails a write, and when it completes it has written the same three files
\* again, each with the dimensions and the centre pixel it had.
C5_IdempotentOverwrite ==
    run > 1 =>
        /\ pc # "failed" => \A n \in Names : PixelsOf(dir[n]) = PixelsOf(dir0[n])
        /\ icon_sizes = ReferenceSizes =>
              /\ pc = "failed" => err = "OSError"
              /\ pc = "done" =>
                    /\ Written = {"32x32.png", "128x128.png", "128x128@2x.png"}
                    /\ \A n \in Written :
                          /\ dir[n].kind = "png"
                          /\ dir[n].size = dir0[n].size
                          /\ dir[n].px[dir[n].size[1] \div 2][dir[n].size[2] \div 2]
                                = dir0[n].px[dir0[n].size[1] \div 2][dir0[n].size[2] \div 2]

C5_Witness ==
    /\ run = 2
    /\ pc = "done"
    /\ icon_sizes = ReferenceSizes
    /\ Written = {"32x32.png", "128x128.png", "128x128@2x.png"}
    /\ \A n \in Names : PixelsOf(dir[n]) = PixelsOf(dir0[n])

-----------------------------------------------------------------------------
(* C6 *)

\* the names the script writes when nothing fails, in order
ExpectedWrites ==
    [k \in 1..(Len(icon_sizes) + 1) |->
        IF k <= Len(icon_sizes) THEN IconName(icon_sizes[k]) ELSE "128x128@2x.png"]

\* the names the current run has written, in order
WriteSequence ==
    LET F[k \in 0..Len(log)] ==
            IF k = 0 THEN << >>
            ELSE IF log[k].op = "write" THEN Append(F[k - 1], log[k].name)
            ELSE F[k - 1]
    IN  F[Len(log)]

\* C6: an exception is the last thing a run does: nothing is drawn, read,
\* written or printed after it.  The message is printed at most once, only by
\* a run that raised nothing and wrote every file, and every completed run has
\* printed it exactly once.
C6_AbortOnFirstFailure ==
    /\ \A k \in 1..Len(log) : log[k].op = "raise" => k = Len(log) /\ pc = "failed"
    /\ pc = "failed" =>
          /\ Len(log) > 0
          /\ log[Len(log)].op = "raise"
          /\ stdout = << >>
    /\ Len(stdout) <= 1
    /\ stdout # << >> =>
          /\ stdout = <<Message>>
          /\ pc = "done"
          /\ err = "none"
          /\ WriteSequence = ExpectedWrites
    /\ pc = "done" => stdout = <<Message>>

C6_Witness ==
    /\ pc = "failed"
    /\ failedAt = "save"
    /\ err = "OSError"
    /\ i = 2
    /\ Len(icon_sizes) = 3
    /\ WriteSequence = <<IconName(icon_sizes[1])>>
    /\ stdout = << >>

-----------------------------------------------------------------------------
(* C7 *)

\* the pixels of a width x height canvas outside the box
\* [margin, margin, width - margin, height - margin]
Frame(width, height) ==
    (((0..(margin - 1)) \cup ((width - margin + 1)..(width - 1))) \X (0..(height - 1)))
        \cup ((0..(width - 1)) \X ((0..(margin - 1)) \cup ((height - margin + 1)..(height - 1))))

Corners(width, height) ==
    {<<0, 0>>, <<width - 1, 0>>, <<0, height - 1>>, <<width - 1, height - 1>>}

\* C7: an icon file just written for an entry with width > 8 and height > 8
\* has its four corner pixels at alpha 0, and every pixel outside the box
\* [4, 4, width-4, height-4] still at the canvas's initial (0, 0, 0, 0).
C7_Transparency ==
    IconJustWritten =>
        LET s == icon_sizes[i]
            f == dir[IconName(s)]
        IN  (s[1] > 8 /\ s[2] > 8) =>
                /\ f.kind = "png"
                /\ \A c \in Corners(s[1], s[2]) : f.px[c[1]][c[2]][4] = 0
                /\ \A q \in Frame(s[1], s[2]) : f.px[q[1]][q[2]] = <<0, 0, 0, 0>>

C7_Witness ==
    /\ IconJustWritten
    /\ icon_sizes[i] = <<128, 128>>
    /\ dir["128x128.png"].px[0][0] = <<0, 0, 0, 0>>
    /\ dir["128x128.png"].px[127][127][4] = 0
    /\ dir["128x128.png"].px[64][4][4] = 255

-----------------------------------------------------------------------------
(* C8 *)

\* whether the centre pixel of a width x height canvas, and the pixels next to
\* it, lie within the ellipse inscribed in [4, 4, width-4, height-4]
CentreStrictlyInside(width, height) ==
    LET a == (width - 4) - 4
        b == (height - 4) - 4
        X == 2 * (width \div 2) - width
        Y == 2 * (height \div 2) - height
        AX == (IF X < 0 THEN -X ELSE X) + 2
        AY == (IF Y < 0 THEN -Y ELSE Y) + 2
    IN  /\ a > 0
        /\ b > 0
        /\ AX * AX * b * b + AY * AY * a * a <= a * a * b * b

\* C8: the centre of 32 x 32 and of 128 x 128 lies strictly inside the ellipse,
\* and an icon file just written for an entry whose centre does has the fill
\* colour (70, 130, 180, 255) at its centre pixel (width/2, height/2).
C8_CentreColour ==
    /\ CentreStrictlyInside(32, 32)
    /\ CentreStrictlyInside(128, 128)
    /\ IconJustWritten =>
          LET s == icon_sizes[i]
              f == dir[IconName(s)]
          IN  CentreStrictlyInside(s[1], s[2]) =>
                  /\ f.kind = "png"
                  /\ f.px[s[1] \div 2][s[2] \div 2] = <<70, 130, 180, 255>>

C8_Witness ==
    /\ IconJustWritten
    /\ icon_sizes[i] = <<32, 32>>
    /\ dir["32x32.png"].px[16][16] = <<70, 130, 180, 255>>
    /\ dir["32x32.png"].px[16][4] = <<25, 25, 112, 255>>

-----------------------------------------------------------------------------
(* C9 *)

\* what a run does when nothing fails, in order: per entry of the size
\* sequence a canvas, the drawing and the write; then the read of 128x128.png,
\* the write of 128x128@2x.png and the message
ExpectedLog ==
    [k \in 1..(3 * Len(icon_sizes) + 3) |->
        IF k <= 3 * Len(icon_sizes)
        THEN [op |-> <<"new", "draw", "write">>[((k - 1) % 3) + 1],
              name |-> IconName(icon_sizes[((k - 1) \div 3) + 1])]
        ELSE <<[op |-> "read", name |-> "128x128.png"],
               [op |-> "write", name |-> "128x128@2x.png"],
               [op |-> "print", name |-> Message]>>[k - 3 * Len(icon_sizes)]]

\* C9: what a run has done is always an initial part of that order, up to the
\* exception that ended it: the icons are written one per entry in sequence
\* order, each before the next canvas is allocated; 128x128.png is read and
\* 128x128@2x.png written only after the write for the last entry, so
\* 128x128@2x.png is the last file written and no write follows it.
C9_WriteOrder ==
    /\ \A k \in 1..Len(log) :
          log[k].op # "raise" => k <= Len(ExpectedLog) /\ log[k] = ExpectedLog[k]
    /\ \A k \in 1..Len(log) :
          (log[k].op = "write" /\ log[k].name = "128x128@2x.png") =>
              /\ k = 3 * Len(icon_sizes) + 2
              /\ \A j \in (k + 1)..Len(log) : log[j].op # "write"

C9_Witness ==
    /\ pc = "done"
    /\ Len(icon_sizes) = 3
    /\ icon_sizes[1] = <<128, 128>>
    /\ Len(log) = 12
    /\ log[11] = [op |-> "write", name |-> "128x128@2x.png"]
    /\ log[3] = [op |-> "write", name |-> "128x128.png"]

-----------------------------------------------------------------------------
(* C10 *)

\* the file that a save of the icon of one size alone yields
IconFile ==
    [s \in SizeUniverse |->
        EncodePNG(DrawEllipse(NewImage(s[1], s[2], Background), FillColour, OutlineColour))]

\* C10: in every state of a run, a file whose name is neither that of an entry
\* of the size sequence nor 128x128@2x.png is as it was when the run began; no
\* file that was there has gone; and an icon file just written is the file its
\* own (width, height) yields on a new canvas, whatever was processed before.
C10_FrameAndFreshCanvas ==
    /\ \A n \in Names \ ({IconName(s) : s \in Entries} \cup {"128x128@2x.png"}) :
          dir[n] = dir0[n]
    /\ \A n \in Names : dir0[n].kind # "absent" => dir[n].kind # "absent"
    /\ IconJustWritten => dir[IconName(icon_sizes[i])] = IconFile[icon_sizes[i]]

C10_Witness ==
    /\ IconJustWritten
    /\ i = 3
    /\ icon_sizes = << <<6, 12>>, <<32, 32>>, <<128, 128>> >>
    /\ dir["128x128.png"] = IconFile[<<128, 128>>]
    /\ dir["icon.ico"] = dir0["icon.ico"]
    /\ dir0["128x128.png"].kind = "data"

====
